---- MODULE Spec2Model ----
(***************************************************************************)
(* A model of the daily-brief pipeline (src/daily_brief): the gateway      *)
(* wrappers, the sector and sentiment batch classifiers, the theme         *)
(* extractor, the alert builders, the composer and run_morning_brief.      *)
(*                                                                         *)
(* Every call of the completion service is an input of the environment:    *)
(* the service's behaviour for one wrapper call is a function from the     *)
(* attempt number to the outcome of that attempt, and the text of a        *)
(* successful response is drawn from a small set of payloads.  A step of   *)
(* the model is one wrapper call together with everything the code does    *)
(* with its result before the next call.                                   *)
(***************************************************************************)
EXTENDS Integers, Sequences, FiniteSets, TLC

\* ------------------------------------------------------------------ bounds
\* Largest number of items in a run.
NItems == 3
\* Items per batch prompt.  It stands for MAX_PER_BATCH (12 in
\* classify_sector.py:8, int(os.getenv("MAX_PER_BATCH", "6")) in config.py:15),
\* scaled down so that a run of NItems items has several batches.
BatchSize == 2
\* Longest mapping (number of entries) in a batch response.
MaxMapLen == 2
\* Largest number of items fetch_all_news returns in a run of run_morning_brief.
RunItems == 2
\* The longest list of search results deduplicated.
MaxFetched == 3

\* ------------------------------------------------------- program constants
\* classify_sector.py:9, and range(6) in analyze_sentiment._backoff and
\* detect_themes._backoff.
MAX_RETRIES == 6

Min(a, b) == IF a <= b THEN a ELSE b

Range(s) == {s[k] : k \in 1..Len(s)}

\* config.GICS_SECTORS: its keys, in the order of the dict.
GICS_ORDER ==
    <<"Energy", "Materials", "Industrials", "Consumer Discretionary",
      "Consumer Staples", "Health Care", "Financials", "Information Technology",
      "Communication Services", "Utilities", "Real Estate">>

GICS_SECTORS == Range(GICS_ORDER)

\* The enum of SENT_SCHEMA (analyze_sentiment.py:20).
SENTIMENTS == {"Positive", "Negative", "Neutral"}

\* ------------------------------------------------------ completion service
\* The outcome of one completion attempt: a response, openai.RateLimitError,
\* a model-not-found error, or any other error (transport, ...).
Outcomes == {"ok", "rate", "notfound", "error"}

\* The service's behaviour during one wrapper call: the outcome of each attempt.
ServiceBehaviours == [1..MAX_RETRIES -> Outcomes]

\* The behaviours the classifiers, the theme extractor and the composer are run
\* against: the same outcome at every attempt, or a rate limit at every attempt
\* but the last.
CallBehaviours ==
    {[k \in 1..MAX_RETRIES |-> IF k <= n THEN "rate" ELSE t] :
        n \in {0, MAX_RETRIES - 1}, t \in Outcomes}

\* The behaviours of a service that is down: no attempt is answered.
FailingBehaviours == {svc \in CallBehaviours : \A k \in 1..MAX_RETRIES : svc[k] # "ok"}

\* classify_sector._backoff_chat from attempt k on: a response is returned, a
\* RateLimitError is slept on and retried, any other exception is not caught, and
\* when the loop ends the function falls off its end (returns None).
RECURSIVE BackoffChatFrom(_, _)
BackoffChatFrom(svc, k) ==
    IF k > MAX_RETRIES THEN [result |-> "none", attempts |-> MAX_RETRIES]
    ELSE IF svc[k] = "ok" THEN [result |-> "resp", attempts |-> k]
    ELSE IF svc[k] = "rate" THEN BackoffChatFrom(svc, k + 1)
    ELSE [result |-> "raise", attempts |-> k]

_backoff_chat(svc) == BackoffChatFrom(svc, 1)

\* analyze_sentiment._backoff from attempt k on: RateLimitError is retried, any
\* other exception is re-raised at once, and after the loop RuntimeError is raised.
RECURSIVE SentBackoffFrom(_, _)
SentBackoffFrom(svc, k) ==
    IF k > MAX_RETRIES THEN [result |-> "raise", attempts |-> MAX_RETRIES]
    ELSE IF svc[k] = "ok" THEN [result |-> "resp", attempts |-> k]
    ELSE IF svc[k] = "rate" THEN SentBackoffFrom(svc, k + 1)
    ELSE [result |-> "raise", attempts |-> k]

_backoff_sentiment(svc) == SentBackoffFrom(svc, 1)

\* detect_themes._backoff from attempt k on: every exception is retried, the one
\* of the last attempt (attempt index 5) is re-raised.
RECURSIVE ThemesBackoffFrom(_, _)
ThemesBackoffFrom(svc, k) ==
    IF k > MAX_RETRIES THEN [result |-> "none", attempts |-> MAX_RETRIES]
    ELSE IF svc[k] = "ok" THEN [result |-> "resp", attempts |-> k]
    ELSE IF k = MAX_RETRIES THEN [result |-> "raise", attempts |-> k]
    ELSE ThemesBackoffFrom(svc, k + 1)

_backoff_themes(svc) == ThemesBackoffFrom(svc, 1)

\* ------------------------------------------------------------------- items
\* Text is modelled as a sequence of words.  The words of the vocabulary:
\* "Asia", "Asian", "Jakarta" and "Market" match [A-Z][a-z]{3,}, "Fed" is too
\* short for it; "Asia" is a substring of "Asian".  "Crypto" occurs in no
\* headline.
Words == {"Asia", "Asian", "Jakarta", "Market", "Fed", "Crypto"}

\* str.lower on a word.
Lower(w) ==
    CASE w = "Asia" -> "asia"
      [] w = "Asian" -> "asian"
      [] w = "Jakarta" -> "jakarta"
      [] w = "Market" -> "market"
      [] w = "Fed" -> "fed"
      [] w = "Crypto" -> "crypto"
      [] OTHER -> w

\* a in b, for two words.
Substr(a, b) ==
    \/ a = b
    \/ <<a, b>> \in {<<"Asia", "Asian">>, <<"asia", "asian">>}

\* term in text, for a word and a text (a term holds no space, so it lies
\* within one word of the text).
InText(term, text) == \E k \in 1..Len(text) : Substr(term, text[k])

\* text.lower()
LowerText(text) == [k \in 1..Len(text) |-> Lower(text[k])]

\* re.findall(r"\b[A-Z][a-z]{3,}\b", text): the capitalised words of four
\* letters or more, in the order of the text.
IsTrendWord(w) == w \in {"Asia", "Asian", "Jakarta", "Market", "Crypto"}

\* re.findall(r"[A-Za-z]{4,}", title.lower()): the words of four letters or more.
IsLongWord(w) == w \notin {"Fed", "fed"}

\* A URL is a sequence of characters: "S" stands for the scheme "https://",
\* "a" and "b" for runs of ordinary characters, "(" and ")" for themselves.
Url_a  == <<"S", "a">>
Url_b  == <<"S", "b">>
Url_c  == <<"S", "a", "(", "b", ")">>
Url_d  == <<"S", "a", ")", "(", "S", "b">>

\* The articles a fetch can return: headline, extracted text, URL and region.
Articles ==
    <<[headline |-> <<"Asia", "Fed">>, content |-> <<"Market">>,
       url |-> Url_d, region |-> "Asia"],
      [headline |-> <<"Asia", "Jakarta">>, content |-> <<"Market">>,
       url |-> Url_a, region |-> "Indonesia"],
      [headline |-> <<"Asian", "Jakarta">>, content |-> <<"Fed">>,
       url |-> Url_c, region |-> "Indonesia"],
      [headline |-> <<"Market", "Market">>, content |-> <<"Asia">>,
       url |-> Url_b, region |-> "Global"]>>

ItemPool == Range(Articles)

\* A fetched item as the classifiers receive it: no "sector" and no "sentiment"
\* key yet (it.get("sector") is None), modelled as the empty string.
NewItem(a) ==
    [headline |-> a.headline, content |-> a.content, url |-> a.url,
     region |-> a.region, sector |-> "", sentiment |-> ""]

\* The item lists of a run: up to NItems articles with distinct URLs.
SeqsUpTo(S, n) == UNION {[1..k -> S] : k \in 0..n}

FetchedLists ==
    {s \in SeqsUpTo({NewItem(a) : a \in ItemPool}, NItems) :
        \A j, k \in 1..Len(s) : j # k => s[j].url # s[k].url}

\* The first n articles, as fetched: the lists the classifiers, which read the
\* headline only to build the prompt, are run on.
FirstArticles(n) == [k \in 1..n |-> NewItem(Articles[((k - 1) % Len(Articles)) + 1])]

\* ------------------------------------------------------ trends and alerts
\* " ".join(words), as characters: the words with a space between them.
RECURSIVE Join(_)
Join(text) ==
    IF Len(text) <= 1 THEN text ELSE <<text[1], " ">> \o Join(Tail(text))

\* " ".join(it.get("headline","") for it in items), as words.
RECURSIVE HeadlineWords(_, _)
HeadlineWords(its, k) ==
    IF k > Len(its) THEN <<>> ELSE its[k].headline \o HeadlineWords(its, k + 1)

Count(seq, w) == Cardinality({k \in 1..Len(seq) : seq[k] = w})

FirstPos(seq, w) == CHOOSE k \in 1..Len(seq) : seq[k] = w /\ \A j \in 1..(k - 1) : seq[j] # w

\* Counter(seq).most_common(), restricted to the values in S: by decreasing
\* count, values of equal count in the order first seen.
RECURSIVE MostCommonOf(_, _)
MostCommonOf(S, seq) ==
    IF S = {} THEN <<>>
    ELSE LET b == CHOOSE w \in S : \A v \in S :
                      \/ Count(seq, w) > Count(seq, v)
                      \/ Count(seq, w) = Count(seq, v) /\ FirstPos(seq, w) <= FirstPos(seq, v)
         IN  <<b>> \o MostCommonOf(S \ {b}, seq)

\* seq[:n], for n >= 0.
Take(seq, n) == SubSeq(seq, 1, Min(n, Len(seq)))

\* detect_themes.py:16-20: the curated watchlist, read from the data file
\* daily_brief/data/watchlist_curated.json; the repository holds no such file,
\* open raises and the except branch leaves the list empty.
WATCHLIST_CURATED == <<>>

\* detect_themes.py:40.
COMMON == {"The", "This", "That", "Market", "Global", "Today"}

\* detect_themes.py:36-41: the trending terms, most frequent first.
Trending(its) ==
    LET words  == SelectSeq(HeadlineWords(its, 1), IsTrendWord)
        ranked == Take(MostCommonOf(Range(words), words), 12)
        keep(w) == /\ Count(words, w) > 1
                   /\ Lower(w) \notin {Lower(c) : c \in Range(WATCHLIST_CURATED)}
                   /\ w \notin COMMON
    IN  SelectSeq(ranked, keep)

\* detect_themes.py:44: the URL of the first item whose headline contains the
\* term, "" when there is none.
FirstUrlWith(its, term) ==
    LET S == {k \in 1..Len(its) : InText(term, its[k].headline)}
    IN  IF S = {} THEN <<>> ELSE its[CHOOSE k \in S : \A j \in S : k <= j].url

\* detect_themes.py:45: f"{term}: Trending in news (mentioned {n} times) ({url})".
TrendAlert(term, url) ==
    <<term, ":", " ", "Trending", " ", "(", "mentioned", ")", " ", "(">> \o url \o <<")">>

\* detect_themes.find_dynamic_trends.
find_dynamic_trends(its, top_n) ==
    LET terms == Take(Trending(its), top_n)
    IN  [k \in 1..Len(terms) |-> TrendAlert(terms[k], FirstUrlWith(its, terms[k]))]

\* detect_themes.py:26: the items whose headline or content contains the
\* keyword, letter case ignored, in the order of the list.
Hits(its, kw) ==
    LET hit(k) == InText(Lower(kw), LowerText(its[k].headline \o its[k].content))
        pos == {k \in 1..Len(its) : hit(k)}
    IN  SelectSeq([k \in 1..Len(its) |-> k], LAMBDA k : k \in pos)

\* detect_themes.py:28-32: the alert of one keyword with its hits.
CuratedAlert(its, kw, hits) ==
    LET url == its[hits[1]].url
    IN  IF Len(hits) = 1
        THEN <<kw, ":", " ">> \o Join(its[hits[1]].headline) \o <<" ", "(">> \o url \o <<")">>
        ELSE <<kw, ":", " ", "Mentioned", " ", "stories", " ", "(">> \o url \o <<")">>

\* detect_themes.check_curated_watchlist, from keyword k on.
RECURSIVE CuratedFrom(_, _)
CuratedFrom(its, k) ==
    IF k > Len(WATCHLIST_CURATED) THEN <<>>
    ELSE LET hits == Hits(its, WATCHLIST_CURATED[k])
         IN  (IF hits = <<>> THEN <<>> ELSE <<CuratedAlert(its, WATCHLIST_CURATED[k], hits)>>)
                 \o CuratedFrom(its, k + 1)

check_curated_watchlist(its) == CuratedFrom(its, 1)

\* Python's None, where a URL is expected.
None == <<"None">>

\* The characters [^\s)] of _URL_IN_PARENS_RE does not accept.
Stops == {" ", ")"}

\* orchestrator.py:11: whether \((https?://[^\s)]+)\)\s*$ matches at p: "(", the
\* scheme, one character or more up to the first blank or ")", which is a ")"
\* followed by blanks only.  MatchEnd is the position of that ")".
MatchEnd(a, p) ==
    LET S == {q \in (p + 2)..Len(a) : a[q] \in Stops}
    IN  IF S = {} THEN 0 ELSE CHOOSE q \in S : \A h \in S : q <= h

MatchesAt(a, p) ==
    /\ a[p] = "("
    /\ p + 1 <= Len(a)
    /\ a[p + 1] = "S"
    /\ LET q == MatchEnd(a, p)
       IN  /\ q >= p + 3
           /\ a[q] = ")"
           /\ \A k \in (q + 1)..Len(a) : a[k] = " "

\* str.strip on a sequence of characters.
RECURSIVE Strip(_)
Strip(a) ==
    IF a = <<>> THEN a
    ELSE IF Head(a) = " " THEN Strip(Tail(a))
    ELSE IF a[Len(a)] = " " THEN Strip(SubSeq(a, 1, Len(a) - 1))
    ELSE a

\* orchestrator.py:16-25: the alert object of one alert string; re.search takes
\* the leftmost match.
AlertToObject(a) ==
    LET M == {p \in 1..Len(a) : MatchesAt(a, p)}
    IN  IF M = {}
        THEN [alert |-> a, related_topics |-> <<>>, reference_url |-> None]
        ELSE LET p == CHOOSE x \in M : \A y \in M : x <= y
             IN  [alert |-> Strip(SubSeq(a, 1, p - 1)),
                  related_topics |-> <<>>,
                  reference_url |-> SubSeq(a, p + 1, MatchEnd(a, p) - 1)]

\* orchestrator._alerts_to_objects.
_alerts_to_objects(alerts) == [k \in 1..Len(alerts) |-> AlertToObject(alerts[k])]

\* --------------------------------------------------------- theme extractor
\* config.py:27, the default of THEMES_MAX.
THEMES_MAX == 6

\* detect_themes.py:80: max_themes=None, the default of the parameter.
NoneArg == -1

\* Longest support list of a proposed theme, and most themes in a response.
MaxSupportLen == 2
MaxRespThemes == 2

\* The elements of a "support" list: integers, in range or not, and a value
\* that is no int (1.0, "1") for which isinstance(x, int) is false.
SupportVals ==
    {[int |-> TRUE, v |-> k] : k \in {1, 2, NItems + 1}} \cup {[int |-> FALSE, v |-> 1]}

\* Support lists that name one item three and four times.
RepeatedSupports == {[k \in 1..n |-> [int |-> TRUE, v |-> 1]] : n \in 3..4}

ThemeSupports == SeqsUpTo(SupportVals, MaxSupportLen) \cup RepeatedSupports

ThemeTitles == {<<"Asia">>, <<"Crypto">>}

\* An entry of "themes" that is no object: t.get raises AttributeError.
NotObjTheme == [obj |-> FALSE, title |-> <<>>, support |-> <<>>]

ThemeProposals(titles, supports) ==
    {[obj |-> TRUE, title |-> t, support |-> sp] : t \in titles, sp \in supports}
        \cup {NotObjTheme}

\* The text of a response: json.loads raises on it (malformed), or it parses to
\* an object with a list "themes" (an empty text reads as no themes).
ThemePayloadsOf(props) ==
    {[malformed |-> TRUE, themes |-> <<>>]} \cup
    {[malformed |-> FALSE, themes |-> t] : t \in SeqsUpTo(props, MaxRespThemes)}

\* No response: the call was not answered.
NoResponse == [malformed |-> TRUE, themes |-> <<>>]

ThemePayloads == ThemePayloadsOf(ThemeProposals({<<"Asia">>}, ThemeSupports))

\* detect_themes.py:123: the integers of the list that are keys of idx2item.
ValidSupport(its, support) ==
    LET ok == SelectSeq(support, LAMBDA x : x.int /\ x.v \in 1..Len(its))
    IN  [k \in 1..Len(ok) |-> ok[k].v]

\* detect_themes._majority_region: the region most of the items have, the one
\* counted first among equals; "Mixed" for no item.
_majority_region(indices, its) ==
    LET regions == [k \in 1..Len(indices) |-> its[indices[k]].region]
    IN  IF regions = <<>> THEN "Mixed"
        ELSE MostCommonOf(Range(regions), regions)[1]

\* detect_themes._related_from_support: the headlines in the order of the
\* indices, at most max_related of them.
_related_from_support(indices, its, max_related) ==
    Take([k \in 1..Len(indices) |-> its[indices[k]].headline], max_related)

\* detect_themes.py:128, in tenths.
Priority(support) ==
    IF Len(support) >= 4 THEN 10 ELSE IF Len(support) >= 3 THEN 7 ELSE 5

\* The same, without the test of line 124 that skips a proposal left without a
\* support.
RECURSIVE ModelThemes_KeepUngrounded(_, _, _)
ModelThemes_KeepUngrounded(its, props, k) ==
    IF k > Len(props) THEN <<>>
    ELSE LET support == ValidSupport(its, props[k].support)
         IN  <<[theme |-> props[k].title,
                description |-> <<"description">>,
                region |-> _majority_region(support, its),
                priority |-> Priority(support),
                related_news |-> _related_from_support(support, its, 5),
                support |-> support]>>
                 \o ModelThemes_KeepUngrounded(its, props, k + 1)

\* detect_themes.py:122-135: the themes of the response that keep a support, in
\* the order proposed.  The field support is the list the theme was built from.
RECURSIVE ModelThemes(_, _, _)
ModelThemes(its, props, k) ==
    IF k > Len(props) THEN <<>>
    ELSE LET support == ValidSupport(its, props[k].support)
         IN  (IF support = <<>> THEN <<>>
              ELSE <<[theme |-> props[k].title,
                      description |-> <<"description">>,
                      region |-> _majority_region(support, its),
                      priority |-> Priority(support),
                      related_news |-> _related_from_support(support, its, 5),
                      support |-> support]>>)
                 \o ModelThemes(its, props, k + 1)

\* detect_themes.py:147: the items whose headline contains the term.
ContainmentSupport(its, term) ==
    SelectSeq([k \in 1..Len(its) |-> k], LAMBDA k : InText(term, its[k].headline))

\* detect_themes.py:141-157: one theme for each trending term; the term is the
\* text of the alert before its first ":".
FallbackThemes(its, max_themes) ==
    LET trends == find_dynamic_trends(its, max_themes)
        theme(tr) ==
            LET term == tr[1]
                support_idx == ContainmentSupport(its, term)
            IN  [theme |-> <<term>>,
                 description |-> <<"Multiple", term>>,
                 region |-> _majority_region(support_idx, its),
                 priority |-> 5,
                 related_news |-> _related_from_support(support_idx, its, 5),
                 support |-> support_idx]
    IN  Take([k \in 1..Len(trends) |-> theme(trends[k])], max_themes)

\* The same without the test of line 136: the themes of the model are returned
\* even when there are none.
find_emerging_themes_ReturnsEmpty(its, max_themes_arg, svc, payload) ==
    IF Len(its) = 0 THEN [path |-> "empty", themes |-> <<>>]
    ELSE LET max_themes == IF max_themes_arg = NoneArg \/ max_themes_arg = 0
                           THEN THEMES_MAX ELSE max_themes_arg
             r    == _backoff_themes(svc)
             bad  == \/ r.result # "resp"
                     \/ payload.malformed
                     \/ \E k \in 1..Len(payload.themes) : ~payload.themes[k].obj
         IN  IF ~bad
             THEN [path |-> "model",
                   themes |-> Take(ModelThemes(its, payload.themes, 1), max_themes)]
             ELSE [path |-> "fallback", themes |-> FallbackThemes(its, max_themes)]

\* detect_themes.find_emerging_themes: the themes returned and the path they
\* come from.  Any exception of the model path (the wrapper's, json.loads', an
\* entry that is no object) leads to the fallback.
find_emerging_themes(its, max_themes_arg, svc, payload) ==
    IF Len(its) = 0 THEN [path |-> "empty", themes |-> <<>>]
    ELSE LET max_themes == IF max_themes_arg = NoneArg \/ max_themes_arg = 0
                           THEN THEMES_MAX ELSE max_themes_arg
             r    == _backoff_themes(svc)
             bad  == \/ r.result # "resp"
                     \/ payload.malformed
                     \/ \E k \in 1..Len(payload.themes) : ~payload.themes[k].obj
             out  == IF bad THEN <<>> ELSE ModelThemes(its, payload.themes, 1)
         IN  IF out # <<>>
             THEN [path |-> "model", themes |-> Take(out, max_themes)]
             ELSE [path |-> "fallback", themes |-> FallbackThemes(its, max_themes)]

VARIABLES
    maxThemes,      \* the max_themes argument of find_emerging_themes
    themes,         \* the themes find_emerging_themes returned
    themePath,      \* the path they come from: "model", "fallback", "empty"
    response,       \* the payload a direct call of find_emerging_themes was answered with
    brief,          \* brief_json, once composed
    validation,     \* the outcome of the schema validation: "", "passed", "failed"
    written,        \* the output files the run has written
    run,            \* 1 in the first run, 2 in the run that follows it
    firstLabels,    \* the <<sector, sentiment>> of each item at the end of the first run
    gateway,        \* "up", or "down" when no completion call is answered
    gwCalled,       \* whether the run has called the completion service
    gwSvc,          \* the behaviour of the service during a wrapper call
    gwResult,       \* what the wrapper did: "resp", "none" (returned None), "raise"
    gwJitter,       \* the random part of each sleep of a wrapper call: 0 (none) or 1 (all of it)
    gwAttempts,     \* the number of completion attempts the wrapper call made
    gwSleeps,       \* the sleeps of the wrapper call, in order: the delay and the time slept
    given,          \* the list a function was called with, as it was at the call
    store,          \* the content of the cache file (CACHE_PATH)
    cacheOut,       \* the outcome of the last call of utils_cache.get or utils_cache.set
    history,        \* the value of the last set that returned, for each URL text hashed
    writers,        \* the position and the local dict of each process that runs utils_cache.set
    entry,          \* the function that was called: "run", "sector", "sentiment", ...
    items,          \* the item list, mutated in place by the classifiers
    pc,             \* the position of the call
    grp,            \* the first position of the batch the loop is at (0: none)
    cur,            \* the item a per-item loop is at (0: none)
    err,            \* the exception that ended the call ("": none)
    singleCalls,    \* the items _single_classify has been called for
    failedBatches,  \* <<classifier, grp>> of the batches whose gateway call gave no mapping
    targets         \* batch_assign_sentiment's list of the items to label

themeVars == <<maxThemes, themes, themePath, response>>

runVars == <<brief, validation, written, run, firstLabels, gateway>>

wrapVars == <<gwSvc, gwResult, gwJitter, gwAttempts, gwSleeps>>

libVars == <<given, store, cacheOut, history, writers>>

\* The behaviours of the service a call can meet.
Behaviours == IF gateway = "down" THEN FailingBehaviours ELSE CallBehaviours

\* ------------------------------------------------------- sector classifier
\* What a batch response can hold.  An entry of the parsed list is a JSON object
\* with "i" and "sector" (a missing "i" reads as 0, a missing "sector" as
\* "Unknown"), or something that is no object (a number, a string, a key of a
\* top-level object), on which entry.get raises AttributeError.
RespIdx == -1..(NItems + 1)

RespSectors == {"Energy", "Crypto"}

NotObj == [obj |-> FALSE, i |-> 0, label |-> ""]

SectorEntries ==
    {[obj |-> TRUE, i |-> i, label |-> l] : i \in RespIdx, l \in RespSectors}
        \cup {NotObj}

\* The text of a response: either _safe_json_array raises on it (malformed), or
\* it parses to a list of entries.
Malformed == [malformed |-> TRUE, mapping |-> <<>>]

SectorPayloads ==
    {Malformed} \cup
    {[malformed |-> FALSE, mapping |-> m] : m \in SeqsUpTo(SectorEntries, MaxMapLen)}

NoPayload == [malformed |-> FALSE, mapping |-> <<>>]

\* What an answer of _single_classify's prompt mentions: a set of sector names.
SingleAnswers == {{}, {"Financials"}, {"Energy", "Financials"}}

\* classify_sector.py:96: sector if sector in GICS_SECTORS else "Unknown".
SectorCoerce(sector) == IF sector \in GICS_SECTORS THEN sector ELSE "Unknown"

\* The same without the test 0 <= idx: a negative idx indexes the list from its
\* end, as items[idx] does.
ApplySectorEntry_NegativeWraps(its, e) ==
    LET idx == e.i - 1
    IN  IF idx < 0 /\ Len(its) + idx >= 0
        THEN [its EXCEPT ![Len(its) + idx + 1].sector = SectorCoerce(e.label)]
        ELSE IF 0 <= idx /\ idx < Len(its)
        THEN [its EXCEPT ![idx + 1].sector = SectorCoerce(e.label)]
        ELSE its

\* classify_sector.py:93-96: one entry of the mapping applied to the items, idx
\* being the 0-based index of the code.
ApplySectorEntry(its, e) ==
    LET idx == e.i - 1
    IN  IF 0 <= idx /\ idx < Len(its)
        THEN [its EXCEPT ![idx + 1].sector = SectorCoerce(e.label)]
        ELSE its

\* The same with the k-th entry applied to the k-th item, whatever its "i".
RECURSIVE ApplySectorMapping_ByPosition(_, _, _)
ApplySectorMapping_ByPosition(its, mapping, k) ==
    IF k > Len(mapping) THEN [items |-> its, raised |-> FALSE]
    ELSE IF ~mapping[k].obj THEN [items |-> its, raised |-> TRUE]
    ELSE ApplySectorMapping_ByPosition(
             ApplySectorEntry(its, [mapping[k] EXCEPT !.i = k]), mapping, k + 1)

\* classify_sector.py:92-96: the entries applied in the order received; an entry
\* that is no object raises, the entries before it having been applied.
RECURSIVE ApplySectorMapping(_, _, _)
ApplySectorMapping(its, mapping, k) ==
    IF k > Len(mapping) THEN [items |-> its, raised |-> FALSE]
    ELSE IF ~mapping[k].obj THEN [items |-> its, raised |-> TRUE]
    ELSE ApplySectorMapping(ApplySectorEntry(its, mapping[k]), mapping, k + 1)

\* classify_sector.py:43-46: the first sector, in the order of GICS_SECTORS,
\* whose name the answer contains; "Unknown" when there is none.
RECURSIVE FirstSectorIn(_, _)
FirstSectorIn(answer, k) ==
    IF k > Len(GICS_ORDER) THEN "Unknown"
    ELSE IF GICS_ORDER[k] \in answer THEN GICS_ORDER[k]
    ELSE FirstSectorIn(answer, k + 1)

\* classify_sector._single_classify: "Unknown" when the wrapper returns None.
_single_classify(svc, answer) ==
    LET r == _backoff_chat(svc)
    IN  IF r.result = "raise" THEN [raised |-> TRUE, sector |-> ""]
        ELSE IF r.result = "none" THEN [raised |-> FALSE, sector |-> "Unknown"]
        ELSE [raised |-> FALSE, sector |-> FirstSectorIn(answer, 1)]

\* The exception of a wrapper call that raised: the outcome of its last attempt.
RaisedBy(svc, r) == svc[r.attempts]

\* _chunks: the positions of the batch that starts at g, in a list of n.
Group(g, n) == g..Min(g + BatchSize - 1, n)

\* The first item at or after position k without a sector (0: none).
NextUnset(its, k) ==
    LET S == {j \in k..Len(its) : its[j].sector = ""}
    IN  IF S = {} THEN 0 ELSE CHOOSE j \in S : \A h \in S : j <= h

\* Where control goes when batch_assign_sector returns.
AfterSector == IF entry = "run" THEN "sentiment" ELSE "returned"

\* classify_sector.py:60 and 98-101: after the batch at g either the next batch,
\* or the final sweep at its first unset item, or the return.
AfterGroup(its, g) ==
    IF g + BatchSize <= Len(its)
    THEN [pc |-> "sector", grp |-> g + BatchSize, cur |-> 0]
    ELSE LET k == NextUnset(its, 1)
         IN  IF k = 0 THEN [pc |-> AfterSector, grp |-> 0, cur |-> 0]
             ELSE [pc |-> "sector_sweep", grp |-> 0, cur |-> k]

\* classify_sector.py:55-56: an empty list returns at once.
SectorEmpty ==
    /\ pc = "sector"
    /\ Len(items) = 0
    /\ pc' = AfterSector
    /\ grp' = 0
    /\ UNCHANGED <<entry, items, cur, err, singleCalls, failedBatches, targets>>
    /\ UNCHANGED <<themeVars, runVars, wrapVars, libVars, gwCalled>>

\* classify_sector.py:60-96: the batch prompt of the group at grp, and what is
\* done with the response.
SectorBatch ==
    /\ pc = "sector"
    /\ Len(items) > 0
    /\ \E svc \in Behaviours :
         LET r == _backoff_chat(svc) IN
         \E payload \in (IF r.result = "resp" THEN SectorPayloads ELSE {NoPayload}) :
           IF r.result = "raise"
           THEN /\ pc' = "raised"
                /\ err' = RaisedBy(svc, r)
                /\ grp' = 0
                /\ UNCHANGED <<items, cur, failedBatches>>
           ELSE IF r.result = "none" \/ payload.malformed
           THEN /\ pc' = "sector_single"
                /\ cur' = grp
                /\ failedBatches' = failedBatches \cup {<<"sector", grp>>}
                /\ UNCHANGED <<items, grp, err>>
           ELSE LET res == ApplySectorMapping(items, payload.mapping, 1)
                    nxt == AfterGroup(res.items, grp)
                IN  /\ items' = res.items
                    /\ pc' = IF res.raised THEN "raised" ELSE nxt.pc
                    /\ err' = IF res.raised THEN "AttributeError" ELSE err
                    /\ grp' = IF res.raised THEN 0 ELSE nxt.grp
                    /\ cur' = IF res.raised THEN 0 ELSE nxt.cur
                    /\ UNCHANGED failedBatches
    /\ UNCHANGED <<entry, singleCalls, targets>>
    /\ gwCalled' = TRUE
    /\ UNCHANGED <<themeVars, runVars, wrapVars, libVars>>

\* classify_sector.py:74-78 and 85-89: the per-item fallback of a batch, one
\* _single_classify call for the item at cur.
SectorSingle ==
    /\ pc = "sector_single"
    /\ \E svc \in Behaviours :
         LET r == _backoff_chat(svc) IN
         \E answer \in (IF r.result = "resp" THEN SingleAnswers ELSE {{}}) :
           LET res == _single_classify(svc, answer)
               its == [items EXCEPT ![cur].sector = res.sector]
               nxt == AfterGroup(its, grp)
               last == cur = Min(grp + BatchSize - 1, Len(items))
           IN  IF res.raised
               THEN /\ pc' = "raised"
                    /\ err' = RaisedBy(svc, r)
                    /\ grp' = 0
                    /\ cur' = 0
                    /\ UNCHANGED items
               ELSE /\ items' = its
                    /\ pc' = IF last THEN nxt.pc ELSE pc
                    /\ grp' = IF last THEN nxt.grp ELSE grp
                    /\ cur' = IF last THEN nxt.cur ELSE cur + 1
                    /\ UNCHANGED err
    /\ singleCalls' = singleCalls \cup {cur}
    /\ UNCHANGED <<entry, failedBatches, targets>>
    /\ gwCalled' = TRUE
    /\ UNCHANGED <<themeVars, runVars, wrapVars, libVars>>

\* classify_sector.py:98-101: the final sweep, one _single_classify call for the
\* unset item at cur.
SectorSweep ==
    /\ pc = "sector_sweep"
    /\ \E svc \in Behaviours :
         LET r == _backoff_chat(svc) IN
         \E answer \in (IF r.result = "resp" THEN SingleAnswers ELSE {{}}) :
           LET res == _single_classify(svc, answer)
               its == [items EXCEPT ![cur].sector = res.sector]
               k   == NextUnset(its, cur + 1)
           IN  IF res.raised
               THEN /\ pc' = "raised"
                    /\ err' = RaisedBy(svc, r)
                    /\ cur' = 0
                    /\ UNCHANGED <<items, grp>>
               ELSE /\ items' = its
                    /\ pc' = IF k = 0 THEN AfterSector ELSE pc
                    /\ grp' = 0
                    /\ cur' = k
                    /\ UNCHANGED err
    /\ singleCalls' = singleCalls \cup {cur}
    /\ UNCHANGED <<entry, failedBatches, targets>>
    /\ gwCalled' = TRUE
    /\ UNCHANGED <<themeVars, runVars, wrapVars, libVars>>

\* ---------------------------------------------------- sentiment classifier
\* What a batch response can hold: an entry is an object with "i" and
\* "sentiment", or something that is no object (a number, a string, null, a
\* list), on which m["i"] raises TypeError.  The response format asks for the
\* enum of SENT_SCHEMA; "Bullish" is a label outside it.
RespSentiments == {"Positive", "Bullish"}

SentEntries ==
    {[obj |-> TRUE, i |-> i, label |-> l] : i \in RespIdx, l \in RespSentiments}
        \cup {NotObj}

\* The text of a response: json.loads raises on it (malformed), or it parses to
\* an object whose "mapping" is a list of entries.  A text that parses to a list
\* raises TypeError at data["mapping"], as a first entry that is no object does
\* at m["i"].
SentPayloads ==
    {Malformed} \cup
    {[malformed |-> FALSE, mapping |-> m] : m \in SeqsUpTo(SentEntries, MaxMapLen)}

\* analyze_sentiment.py:90: the label is stored as received.
SentStore(label) == label

\* analyze_sentiment.py:88-90: one entry applied, real_idx being 0-based.
ApplySentEntry(its, m) ==
    LET real_idx == m.i - 1
    IN  IF 0 <= real_idx /\ real_idx < Len(its)
        THEN [its EXCEPT ![real_idx + 1].sentiment = SentStore(m.label)]
        ELSE its

\* analyze_sentiment.py:87-90: the entries applied in the order received.
RECURSIVE ApplySentMapping(_, _, _)
ApplySentMapping(its, mapping, k) ==
    IF k > Len(mapping) THEN [items |-> its, raised |-> FALSE]
    ELSE IF ~mapping[k].obj THEN [items |-> its, raised |-> TRUE]
    ELSE ApplySentMapping(ApplySentEntry(its, mapping[k]), mapping, k + 1)

\* analyze_sentiment.py:92-95: every item without a sentiment gets "Neutral".
SentSweep(its) ==
    [k \in 1..Len(its) |->
        IF its[k].sentiment = "" THEN [its[k] EXCEPT !.sentiment = "Neutral"] ELSE its[k]]

\* analyze_sentiment.py:61: the positions of the items without a sentiment, in
\* increasing order.
RECURSIVE Targets(_, _)
Targets(its, k) ==
    IF k > Len(its) THEN <<>>
    ELSE IF its[k].sentiment = "" THEN <<k>> \o Targets(its, k + 1)
    ELSE Targets(its, k + 1)

\* Where control goes when batch_assign_sentiment returns.
AfterSentiment == IF entry = "run" THEN "themes" ELSE "returned"

\* analyze_sentiment.py:58-63: the early returns, and the list of targets.
SentStart ==
    /\ pc = "sentiment"
    /\ LET t == Targets(items, 1)
       IN  /\ targets' = t
           /\ pc' = IF t = <<>> THEN AfterSentiment ELSE "sent_batch"
           /\ grp' = IF t = <<>> THEN 0 ELSE 1
    /\ UNCHANGED <<entry, items, cur, err, singleCalls, failedBatches>>
    /\ UNCHANGED <<themeVars, runVars, wrapVars, libVars, gwCalled>>

\* analyze_sentiment.py:65-95: the batch prompt of the targets at grp, what is
\* done with the response and, after the last batch, the defaults.  No exception
\* is caught.
SentBatch ==
    /\ pc = "sent_batch"
    /\ \E svc \in Behaviours :
         LET r == _backoff_sentiment(svc) IN
         \E payload \in (IF r.result = "resp" THEN SentPayloads ELSE {NoPayload}) :
           IF r.result = "raise"
           THEN /\ pc' = "raised"
                /\ err' = IF r.attempts = MAX_RETRIES /\ svc[MAX_RETRIES] = "rate"
                          THEN "RuntimeError" ELSE RaisedBy(svc, r)
                /\ grp' = 0
                /\ failedBatches' = failedBatches \cup {<<"sentiment", grp>>}
                /\ UNCHANGED items
           ELSE IF payload.malformed
           THEN /\ pc' = "raised"
                /\ err' = "JSONDecodeError"
                /\ grp' = 0
                /\ failedBatches' = failedBatches \cup {<<"sentiment", grp>>}
                /\ UNCHANGED items
           ELSE LET res  == ApplySentMapping(items, payload.mapping, 1)
                    last == grp + BatchSize > Len(targets)
                IN  /\ items' = IF res.raised \/ ~last THEN res.items ELSE SentSweep(res.items)
                    /\ pc' = IF res.raised THEN "raised"
                             ELSE IF last THEN AfterSentiment ELSE pc
                    /\ err' = IF res.raised THEN "TypeError" ELSE err
                    /\ grp' = IF res.raised \/ last THEN 0 ELSE grp + BatchSize
                    /\ UNCHANGED failedBatches
    /\ UNCHANGED <<entry, cur, singleCalls, targets>>
    /\ gwCalled' = TRUE
    /\ UNCHANGED <<themeVars, runVars, wrapVars, libVars>>

\* --------------------------------------------------- applying a response
\* The lists a parsed mapping is applied to: unlabelled items, or items that
\* already hold a sector and a sentiment.
ApplyInputs ==
    {[k \in 1..n |-> [FirstArticles(n)[k] EXCEPT !.sector = l[1], !.sentiment = l[2]]] :
        n \in 0..NItems, l \in {<<"", "">>, <<"Energy", "Negative">>}}

\* The loop over the parsed mapping, of batch_assign_sector
\* (classify_sector.py:92-96) or of batch_assign_sentiment
\* (analyze_sentiment.py:86-89).
ApplyTo(fn, its, mapping) ==
    IF fn = "apply_sector" THEN ApplySectorMapping(its, mapping, 1)
    ELSE ApplySentMapping(its, mapping, 1)

\* The loop runs over the mapping of one response.
ApplyMapping ==
    /\ pc = "apply"
    /\ \E payload \in (IF entry = "apply_sector" THEN SectorPayloads ELSE SentPayloads)
                          \ {Malformed} :
         LET res == ApplyTo(entry, items, payload.mapping)
         IN  /\ response' = payload
             /\ items' = res.items
             /\ pc' = IF res.raised THEN "raised" ELSE "returned"
             /\ err' = IF ~res.raised THEN ""
                       ELSE IF entry = "apply_sector" THEN "AttributeError" ELSE "TypeError"
    /\ UNCHANGED <<entry, grp, cur, singleCalls, failedBatches, targets>>
    /\ UNCHANGED <<maxThemes, themes, themePath, runVars, wrapVars, gwCalled, libVars>>

\* ------------------------------------------------------ theme extraction
\* Where control goes when find_emerging_themes returns.
AfterThemes == IF entry = "run" THEN "compose" ELSE "returned"

\* The responses a run's theme prompt is answered with.
RunSupports == {<<>>, <<[int |-> TRUE, v |-> 1]>>,
                <<[int |-> TRUE, v |-> 1], [int |-> TRUE, v |-> 2]>>}

RunThemePayloads == ThemePayloadsOf(ThemeProposals(ThemeTitles, RunSupports))

\* A call of find_emerging_themes(items, max_themes); run_morning_brief calls it
\* without max_themes (orchestrator.py:101).
ThemesCall ==
    /\ pc = "themes"
    /\ \E svc \in Behaviours :
         LET r == _backoff_themes(svc) IN
         \E payload \in (IF r.result # "resp" THEN {NoResponse}
                         ELSE IF entry = "run" THEN RunThemePayloads
                         ELSE ThemePayloads) :
           LET res == find_emerging_themes(items, maxThemes, svc, payload)
           IN  /\ themes' = res.themes
               /\ themePath' = res.path
               /\ response' = IF entry = "run" THEN NoResponse ELSE payload
    /\ pc' = AfterThemes
    /\ gwCalled' = (gwCalled \/ Len(items) > 0)
    /\ UNCHANGED <<entry, items, grp, cur, err, singleCalls, failedBatches, targets, maxThemes>>
    /\ UNCHANGED <<runVars, wrapVars, libVars>>

\* ------------------------------------------------------------ orchestrator
\* it.get("sector", "Unknown") and it.get("sentiment", "Neutral"): an item the
\* classifiers left without the key reads as the default.
SectorKey(it) == IF it.sector = "" THEN "Unknown" ELSE it.sector

SentKey(it) == IF it.sentiment = "" THEN "Neutral" ELSE it.sentiment

\* orchestrator._group_by_sector: the items of each sector, in the order of the list.
_group_by_sector(its) ==
    [sec \in {SectorKey(its[k]) : k \in 1..Len(its)} |->
        SelectSeq(its, LAMBDA it : SectorKey(it) = sec)]

\* The keys of by_sector in the order of insertion: by first occurrence.
RECURSIVE SectorsInOrder(_, _, _)
SectorsInOrder(its, k, seen) ==
    IF k > Len(its) THEN <<>>
    ELSE IF SectorKey(its[k]) \in seen THEN SectorsInOrder(its, k + 1, seen)
    ELSE <<SectorKey(its[k])>> \o SectorsInOrder(its, k + 1, seen \cup {SectorKey(its[k])})

\* orchestrator._sentiment_counts: per sector the number of items of each of the
\* three labels; an item with another label is counted nowhere.
_sentiment_counts(by_sector) ==
    [sec \in DOMAIN by_sector |->
        [lab \in SENTIMENTS |->
            Cardinality({k \in 1..Len(by_sector[sec]) : SentKey(by_sector[sec][k]) = lab})]]

\* re.findall(r"[A-Za-z]{4,}", title.lower()).
TitleTokens(title) == SelectSeq(LowerText(title), IsLongWord)

\* any(t in text for t in tokens)
AnyIn(tokens, text) == \E j \in 1..Len(tokens) : InText(tokens[j], text)

\* The keys of counts in orchestrator._infer_theme_region, in their order.
REGION_ORDER == <<"Global", "Asia", "Indonesia">>

\* orchestrator._infer_theme_region: the region of most of the items whose
\* headline or content holds a token of the title, the first of REGION_ORDER
\* among equals; "Mixed" without a token or a matching item.
_infer_theme_region(title, its) ==
    LET tokens == TitleTokens(title)
        counts == [r \in Range(REGION_ORDER) |->
                      Cardinality({k \in 1..Len(its) :
                          /\ AnyIn(tokens, LowerText(its[k].headline \o its[k].content))
                          /\ its[k].region = r})]
        best == CHOOSE j \in 1..Len(REGION_ORDER) :
                    /\ \A h \in 1..Len(REGION_ORDER) : counts[REGION_ORDER[h]] <= counts[REGION_ORDER[j]]
                    /\ \A h \in 1..(j - 1) : counts[REGION_ORDER[h]] < counts[REGION_ORDER[j]]
    IN  IF tokens = <<>> THEN "Mixed"
        ELSE IF \A r \in Range(REGION_ORDER) : counts[r] = 0 THEN "Mixed"
        ELSE REGION_ORDER[best]

\* orchestrator.py:64-70: the headlines that hold a token of the title, in the
\* order of the items, at most max_related of them.
RelatedHeadlines(title, its, max_related) ==
    LET hit == SelectSeq(its, LAMBDA it : AnyIn(TitleTokens(title), LowerText(it.headline)))
    IN  Take([k \in 1..Len(hit) |-> hit[k].headline], max_related)

\* orchestrator._attach_theme_metadata: region, priority (in tenths) and related
\* headlines are computed again from the title; the support is dropped.
_attach_theme_metadata(ths, its) ==
    [k \in 1..Len(ths) |->
        LET related == RelatedHeadlines(ths[k].theme, its, 5)
        IN  [theme |-> ths[k].theme,
             description |-> ths[k].description,
             region |-> _infer_theme_region(ths[k].theme, its),
             priority |-> IF Len(related) >= 3 THEN 10 ELSE 5,
             related_news |-> related]]

\* ---------------------------------------------------------------- composer
\* The words of _ID_WORDS and _ASIA_WORDS (generate_brief.py:37-38), in lower
\* case as re.I compares; "Bank Indonesia" matches wherever "Indonesia" does.
ID_WORDS == {"indonesia", "indonesian", "jakarta", "jci", "idx"}

ASIA_WORDS == {"asia", "china", "japan", "korea", "taiwan", "hong", "nikkei",
               "hang", "kospi", "sgx"}

\* \b(...)\b matches whole words only.
HasWord(text, S) == \E k \in 1..Len(text) : Lower(text[k]) \in S

\* generate_brief._is_indonesia_item: ".id" in the URL, or a word of _ID_WORDS
\* in the headline or the content.
_is_indonesia_item(it) ==
    \/ \E k \in 1..Len(it.url) : it.url[k] = ".id"
    \/ HasWord(it.headline \o it.content, ID_WORDS)

\* generate_brief._is_asia_item
_is_asia_item(it) ==
    /\ HasWord(it.headline \o it.content, ASIA_WORDS)
    /\ ~_is_indonesia_item(it)

\* generate_brief._fallback_summary: the template with the label and the counts.
_fallback_summary(its, label) ==
    [kind |-> "template", label |-> label, n |-> Len(its),
     pos |-> Cardinality({k \in 1..Len(its) : its[k].sentiment = "Positive"}),
     neg |-> Cardinality({k \in 1..Len(its) : its[k].sentiment = "Negative"}),
     neu |-> Cardinality({k \in 1..Len(its) : its[k].sentiment = "Neutral"})]

\* What one summary call gives: a text, an empty text, or an exception.
SummaryOutcomes == {"text", "error"}

\* generate_brief.py:119: _llm_summarize(ctx, MODEL_COMPOSE) or
\* _fallback_summary(items, label); _llm_summarize returns "" on any exception.
Summary(outcome, its, label) ==
    IF outcome = "text"
    THEN [kind |-> "llm", label |-> label, n |-> 0, pos |-> 0, neg |-> 0, neu |-> 0]
    ELSE _fallback_summary(its, label)

\* generate_brief.py:103-105: the items of by_sector, sector after sector.
RECURSIVE AllItems(_, _, _)
AllItems(by_sector, order, k) ==
    IF k > Len(order) THEN <<>>
    ELSE by_sector[order[k]] \o AllItems(by_sector, order, k + 1)

\* generate_brief.py:147-157: the blocks of one sector ("source" is left out).
Blocks(its) ==
    [k \in 1..Len(its) |->
        [headline |-> its[k].headline, sentiment |-> SentKey(its[k]), url |-> its[k].url]]

\* generate_brief.compose_and_generate: brief_json, for market_summaries = {} and
\* economic_events = [] as run_morning_brief passes them.  out gives the outcome
\* of the three summary calls.
compose_and_generate(by_sector, order, alerts, ths, indicators, out) ==
    LET all_items  == AllItems(by_sector, order, 1)
        indo_items == SelectSeq(all_items, _is_indonesia_item)
        asia_items == SelectSeq(all_items, _is_asia_item)
    IN  [date |-> "today",
         market_summaries |->
             [global    |-> Summary(out.global, all_items, "Global"),
              asia      |-> Summary(out.asia, asia_items, "Asia"),
              indonesia |-> Summary(out.indonesia, indo_items, "Indonesia")],
         economic_events |-> <<>>,
         news_by_sector |-> [sec \in DOMAIN by_sector |-> Blocks(by_sector[sec])],
         watchlist_alerts |-> alerts,
         emerging_themes |-> ths,
         sentiment_indicators |-> indicators]

\* No brief yet.
NoBrief == [date |-> "none"]

\* orchestrator.py:94-112: grouping, counts, alerts, theme metadata and the
\* composition, with its three summary calls.
Compose ==
    /\ pc = "compose"
    /\ \E out \in [{"global", "asia", "indonesia"} ->
                      IF gateway = "down" THEN {"error"} ELSE SummaryOutcomes] :
         LET by_sector == _group_by_sector(items)
             alerts == check_curated_watchlist(items) \o find_dynamic_trends(items, 3)
         IN  brief' = compose_and_generate(by_sector, SectorsInOrder(items, 1, {}),
                          _alerts_to_objects(alerts),
                          _attach_theme_metadata(themes, items),
                          _sentiment_counts(by_sector), out)
    /\ pc' = "validate"
    /\ gwCalled' = TRUE
    /\ UNCHANGED <<entry, items, grp, cur, err, singleCalls, failedBatches, targets>>
    /\ UNCHANGED <<themeVars, validation, written, run, firstLabels, gateway, wrapVars, libVars>>

\* orchestrator.py:115-118: the brief is checked against the schema; validate
\* raises ValidationError, which nothing catches, when it does not satisfy it.
Validate ==
    /\ pc = "validate"
    /\ \E valid \in BOOLEAN :
         /\ validation' = IF valid THEN "passed" ELSE "failed"
         /\ pc' = IF valid THEN "save" ELSE "raised"
         /\ err' = IF valid THEN err ELSE "ValidationError"
    /\ UNCHANGED <<entry, items, grp, cur, singleCalls, failedBatches, targets>>
    /\ UNCHANGED <<themeVars, brief, written, run, firstLabels, gateway, gwCalled, wrapVars, libVars>>

\* orchestrator.py:121-126: both files are written.
Save ==
    /\ pc = "save"
    /\ written' = {"brief.json", "brief.md"}
    /\ pc' = "done"
    /\ UNCHANGED <<entry, items, grp, cur, err, singleCalls, failedBatches, targets>>
    /\ UNCHANGED <<themeVars, brief, validation, run, firstLabels, gateway, gwCalled, wrapVars, libVars>>

\* The labels of the items, as <<sector, sentiment>>.
Labels(its) == [k \in 1..Len(its) |-> <<its[k].sector, its[k].sentiment>>]

\* A second run of run_morning_brief, after a first one that ended normally: the
\* same articles are fetched again and the gateway is disabled.  Neither run
\* reads or writes utils_cache.
Rerun ==
    /\ pc = "done"
    /\ run = 1
    /\ run' = 2
    /\ firstLabels' = Labels(items)
    /\ items' = FirstArticles(Len(items))
    /\ gateway' = "down"
    /\ gwCalled' = FALSE
    /\ pc' = "sector"
    /\ grp' = 1
    /\ cur' = 0
    /\ err' = ""
    /\ singleCalls' = {}
    /\ failedBatches' = {}
    /\ targets' = <<>>
    /\ themes' = <<>>
    /\ themePath' = ""
    /\ brief' = NoBrief
    /\ validation' = ""
    /\ written' = {}
    /\ UNCHANGED <<entry, maxThemes, response, wrapVars, libVars>>

\* The empty dict get returns for a key the store does not hold.
NoEntry == [sector |-> "", sentiment |-> ""]

\* No call of utils_cache yet.
NoCacheOut ==
    [op |-> "", url |-> <<>>, before |-> "", raised |-> FALSE, found |-> FALSE,
     value |-> NoEntry]

\* No cache file.
MissingStore == [state |-> "missing", data |-> <<>>]

\* No set has returned.
NoHistory == <<>>

\* The processes that run utils_cache.set on the same cache file.
Writers == {1, 2}

\* No process has called set: d is what _load returned, out the dict to write,
\* last tells whose json.dump came last.
NoWriters ==
    [w \in Writers |-> [pc |-> "idle", url |-> <<>>, value |-> NoEntry,
                        d |-> [dict |-> TRUE, data |-> <<>>], out |-> <<>>,
                        last |-> FALSE]]

\* No random part in any sleep.
NoJitter == [k \in 1..MAX_RETRIES |-> 0]

\* The function is called with the list as it is; no cache file, no wrapper call.
Idle ==
    /\ given = items
    /\ store = MissingStore
    /\ gwJitter = NoJitter

\* The state before anything was called.
Fresh ==
    /\ cur = 0
    /\ err = ""
    /\ singleCalls = {}
    /\ failedBatches = {}
    /\ targets = <<>>
    /\ themes = <<>>
    /\ themePath = ""
    /\ response = NoResponse
    /\ brief = NoBrief
    /\ validation = ""
    /\ written = {}
    /\ run = 1
    /\ firstLabels = <<>>
    /\ gwCalled = FALSE
    /\ gwResult = ""
    /\ gwAttempts = 0
    /\ gwSleeps = <<>>
    /\ cacheOut = NoCacheOut
    /\ history = NoHistory
    /\ writers = NoWriters

\* ----------------------------------------------------------- deduplication
\* The headlines of the search results, as characters: a run of letters is one
\* element, a space another.  The first four differ in letter case, in leading
\* and trailing spaces and in the spaces between the words only.
Headlines ==
    {<<"Asia", " ", "Fed">>, <<"asia", " ", "fed">>, <<" ", "Asia", " ", "Fed", " ">>,
     <<"Asia", " ", " ", "Fed">>, <<"Market">>}

\* The search results deduplicate_items receives: up to MaxFetched items.
RawLists == SeqsUpTo([url : {Url_a, Url_b}, headline : Headlines], MaxFetched)

\* The key of an item: (url, headline.strip().lower()).
DedupeKey(it) == <<it.url, LowerText(Strip(it.headline))>>

\* The loop of deduplicate_items: the items whose key is not in seen_keys, in
\* order.
RECURSIVE UniqueItems(_, _)
UniqueItems(its, seen_keys) ==
    IF its = <<>> THEN <<>>
    ELSE IF DedupeKey(Head(its)) \in seen_keys THEN UniqueItems(Tail(its), seen_keys)
    ELSE <<Head(its)>> \o UniqueItems(Tail(its), seen_keys \cup {DedupeKey(Head(its))})

\* fetch_news.deduplicate_items: the loop stops once max_items items are kept,
\* when max_items is given and not zero.
deduplicate_items(its, max_items) ==
    LET unique_items == UniqueItems(its, {})
    IN  IF max_items \notin {NoneArg, 0} /\ Len(unique_items) > max_items
        THEN SubSeq(unique_items, 1, max_items)
        ELSE unique_items

\* fetch_news.py:292: unique_results = deduplicate_items(all_results)
Dedupe ==
    /\ pc = "dedupe"
    /\ items' = deduplicate_items(given, NoneArg)
    /\ pc' = "returned"
    /\ UNCHANGED <<entry, grp, cur, err, singleCalls, failedBatches, targets>>
    /\ UNCHANGED <<themeVars, runVars, wrapVars, gwCalled, libVars>>

\* ------------------------------------------------------------ result cache
\* The URLs the cache is called with: two URLs, the empty string and None.
CacheUrls == {Url_a, Url_b, <<>>, None}

\* utils_cache.py:19: the text that is hashed, (url or "").
UrlText(url) == IF url = None THEN <<>> ELSE url

\* A digest that is the same for every URL.
_key_Constant(url) == <<"sha256">>

\* utils_cache._key: the SHA-256 digest of the URL text, a one-to-one function
\* of it on the URLs of the model.
_key(url) == <<"sha256">> \o UrlText(url)

\* The entries stored: a sector and a sentiment.
CacheEntries ==
    {[sector |-> "Energy", sentiment |-> "Positive"],
     [sector |-> "Unknown", sentiment |-> "Neutral"]}

\* The states of the cache file: missing, a text json.load raises on, a JSON
\* text that is a list or null, or a JSON object from keys to entries.
Stores ==
    {[state |-> st, data |-> <<>>] : st \in {"missing", "unparseable", "list", "null"}}
        \cup UNION {{[state |-> "object", data |-> f] : f \in [K -> CacheEntries]} :
                       K \in SUBSET {_key(u) : u \in CacheUrls}}

\* utils_cache._load: {} for a missing file and for a text json.load raises on,
\* else whatever value the text parses to (dict tells whether it is a dict).
_load(st) ==
    IF st.state \in {"missing", "unparseable", "empty"} THEN [dict |-> TRUE, data |-> <<>>]
    ELSE IF st.state = "object" THEN [dict |-> TRUE, data |-> st.data]
    ELSE [dict |-> FALSE, data |-> <<>>]

\* utils_cache.get: _load().get(_key(url), {}); a value that is no dict has no
\* get and the call raises AttributeError.
CacheGet ==
    /\ pc = "cache"
    /\ \E url \in CacheUrls :
         LET d == _load(store)
             hit == d.dict /\ _key(url) \in DOMAIN d.data
         IN  cacheOut' = [op |-> "get", url |-> url, before |-> store.state,
                          raised |-> ~d.dict, found |-> hit,
                          value |-> IF hit THEN d.data[_key(url)] ELSE NoEntry]
    /\ UNCHANGED <<entry, items, pc, grp, cur, err, singleCalls, failedBatches, targets>>
    /\ UNCHANGED <<themeVars, runVars, wrapVars, gwCalled, given, store, history, writers>>

\* utils_cache.set: d = _load(); d[_key(url)] = value; _save(d).  The item
\* assignment raises TypeError on a value that is no dict, and nothing is saved.
CacheSet ==
    /\ pc = "cache"
    /\ \E url \in CacheUrls, value \in CacheEntries :
         LET d == _load(store)
             K == DOMAIN d.data \cup {_key(url)}
         IN  /\ cacheOut' = [op |-> "set", url |-> url, before |-> store.state,
                             raised |-> ~d.dict, found |-> FALSE, value |-> value]
             /\ store' = IF ~d.dict THEN store
                         ELSE [state |-> "object",
                               data |-> [k \in K |-> IF k = _key(url) THEN value ELSE d.data[k]]]
             /\ history' = IF ~d.dict THEN history
                           ELSE [t \in DOMAIN history \cup {UrlText(url)} |->
                                    IF t = UrlText(url) THEN value ELSE history[t]]
    /\ UNCHANGED <<entry, items, pc, grp, cur, err, singleCalls, failedBatches, targets>>
    /\ UNCHANGED <<themeVars, runVars, wrapVars, gwCalled, given, writers>>

\* ------------------------------------------------- two processes calling set
\* The number of characters of a label.
Chars(label) ==
    CASE label = "Energy" -> 6
      [] label = "Positive" -> 8
      [] label = "Unknown" -> 7
      [] label = "Neutral" -> 7
      [] OTHER -> 0

\* The characters json.dump(data, f, indent=2) writes for one entry: the key
\* line with its 64 hex digits, the two field lines, the closing brace and the
\* separator.
EntryLen(e) == 115 + Chars(e.sector) + Chars(e.sentiment)

RECURSIVE SumEntryLen(_, _)
SumEntryLen(data, K) ==
    IF K = {} THEN 0
    ELSE LET k == CHOOSE x \in K : TRUE
         IN  EntryLen(data[k]) + SumEntryLen(data, K \ {k})

\* The length of the text json.dump writes for a dict: "{}" for the empty one.
TextLen(data) == 2 + SumEntryLen(data, DOMAIN data)

\* The file after open(CACHE_PATH, "w"): no character in it, a text json.load
\* raises on.
Truncated == [state |-> "empty", data |-> <<>>]

\* The dict to write when the file is read again before the entry is put in.
Mutated_Reloaded(d, file, url, value) ==
    LET cur_d == IF file.state = "object" THEN file.data ELSE <<>>
        K == DOMAIN cur_d \cup {_key(url)}
    IN  [k \in K |-> IF k = _key(url) THEN value ELSE cur_d[k]]

\* utils_cache.py:26: d[_key(url)] = value, on the dict the process loaded;
\* the file as it is now plays no part.
Mutated(d, file, url, value) ==
    LET K == DOMAIN d \cup {_key(url)}
    IN  [k \in K |-> IF k = _key(url) THEN value ELSE d[k]]

\* utils_cache.py:16 and the close of the file: the text of out is written from
\* the first character of the file on.  The process truncated the file when it
\* opened it, so the file holds characters only if the other process wrote its
\* text since; what is left of a longer text follows the text written, and
\* json.load raises on the whole.
Dumped(file, out) ==
    IF file.state = "object" /\ TextLen(file.data) > TextLen(out)
    THEN [state |-> "unparseable", data |-> <<>>]
    ELSE [state |-> "object", data |-> out]

\* utils_cache.py:25: a process calls set(url, value) and loads the file.
WriterLoad(w) ==
    /\ pc = "race"
    /\ writers[w].pc = "idle"
    /\ \E url \in CacheUrls, value \in CacheEntries :
         writers' = [writers EXCEPT ![w].pc = "loaded", ![w].url = url,
                                    ![w].value = value, ![w].d = _load(store)]
    /\ UNCHANGED <<entry, items, pc, grp, cur, err, singleCalls, failedBatches, targets>>
    /\ UNCHANGED <<themeVars, runVars, wrapVars, gwCalled, given, store, cacheOut, history>>

\* utils_cache.py:26 and 14-15: the entry is put in the loaded dict (TypeError
\* on a value that is no dict, and the call ends), the directory is made and
\* the file is opened for writing, which empties it.
WriterOpen(w) ==
    /\ pc = "race"
    /\ writers[w].pc = "loaded"
    /\ IF ~writers[w].d.dict
       THEN /\ writers' = [writers EXCEPT ![w].pc = "raised"]
            /\ store' = store
       ELSE /\ writers' = [writers EXCEPT ![w].pc = "open",
                              ![w].out = Mutated(writers[w].d.data, store,
                                                 writers[w].url, writers[w].value)]
            /\ store' = Truncated
    /\ UNCHANGED <<entry, items, pc, grp, cur, err, singleCalls, failedBatches, targets>>
    /\ UNCHANGED <<themeVars, runVars, wrapVars, gwCalled, given, cacheOut, history>>

\* utils_cache.py:16: json.dump and the end of the with block; set returns.
WriterDump(w) ==
    /\ pc = "race"
    /\ writers[w].pc = "open"
    /\ writers' = [v \in Writers |->
                      IF v = w THEN [writers[v] EXCEPT !.pc = "done", !.last = TRUE]
                      ELSE [writers[v] EXCEPT !.last = FALSE]]
    /\ store' = Dumped(store, writers[w].out)
    /\ UNCHANGED <<entry, items, pc, grp, cur, err, singleCalls, failedBatches, targets>>
    /\ UNCHANGED <<themeVars, runVars, wrapVars, gwCalled, given, cacheOut, history>>

\* --------------------------------------------------------- gateway wrappers
Wrappers == {"classify_sector._backoff_chat", "analyze_sentiment._backoff",
             "detect_themes._backoff"}

\* The delays of the wrappers, in milliseconds: the first delay, the ceiling of
\* the delay and the largest random addition to a sleep
\* (classify_sector.py:14,19-20 and MAX_SLEEP_S, analyze_sentiment.py:35,40-41,
\* detect_themes.py:50,57-58).
BaseDelay(w) ==
    IF w = "classify_sector._backoff_chat" THEN 500
    ELSE IF w = "analyze_sentiment._backoff" THEN 250 ELSE 350

Ceiling(w) == IF w = "classify_sector._backoff_chat" THEN 8000 ELSE 6000

MaxJitter(w) ==
    IF w = "classify_sector._backoff_chat" THEN 0
    ELSE IF w = "analyze_sentiment._backoff" THEN 200 ELSE 250

\* A wrapper that forgets to double: the delay stays what it was.
NextDelay_Constant(delay, ceiling) == Min(delay, ceiling)

\* delay = min(delay * 2, ceiling)
NextDelay(delay, ceiling) == Min(delay * 2, ceiling)

\* The value of delay at the k-th sleep of a wrapper call.
RECURSIVE DelayAt(_, _)
DelayAt(w, k) ==
    IF k = 1 THEN BaseDelay(w) ELSE NextDelay(DelayAt(w, k - 1), Ceiling(w))

\* The number of sleeps of a wrapper call: _backoff_chat and
\* analyze_sentiment._backoff sleep after every rate limit, the sixth included;
\* detect_themes._backoff sleeps after every failed attempt but the sixth.
SleepCount(w, svc, r) ==
    IF r.result = "resp" THEN r.attempts - 1
    ELSE IF w = "detect_themes._backoff" THEN MAX_RETRIES - 1
    ELSE IF svc[r.attempts] = "rate" THEN r.attempts
    ELSE r.attempts - 1

\* The sleeps of a wrapper call: the delay, and the time slept, which adds the
\* random part (random.uniform(0, MaxJitter)) to it.
Sleeps(w, svc, r, jitter) ==
    [k \in 1..SleepCount(w, svc, r) |->
        [delay |-> DelayAt(w, k), slept |-> DelayAt(w, k) + jitter[k] * MaxJitter(w)]]

\* The random parts of the sleeps of a call: none, all of it, or in turn.
Jitters ==
    {NoJitter, [k \in 1..MAX_RETRIES |-> 1], [k \in 1..MAX_RETRIES |-> k % 2]}

\* One call of a gateway wrapper against the behaviour gwSvc.
WrapperCall ==
    /\ pc = "wrapper"
    /\ LET r == IF entry = "classify_sector._backoff_chat" THEN _backoff_chat(gwSvc)
                ELSE IF entry = "analyze_sentiment._backoff" THEN _backoff_sentiment(gwSvc)
                ELSE _backoff_themes(gwSvc)
       IN  /\ gwResult' = r.result
           /\ gwAttempts' = r.attempts
           /\ gwSleeps' = Sleeps(entry, gwSvc, r, gwJitter)
           /\ pc' = IF r.result = "raise" THEN "raised" ELSE "returned"
           /\ err' = IF r.result # "raise" THEN ""
                     ELSE IF entry = "analyze_sentiment._backoff" /\ gwSvc[r.attempts] = "rate"
                     THEN "RuntimeError"
                     ELSE RaisedBy(gwSvc, r)
    /\ gwCalled' = TRUE
    /\ UNCHANGED <<entry, items, grp, cur, singleCalls, failedBatches, targets>>
    /\ UNCHANGED <<themeVars, runVars, gwSvc, gwJitter, libVars>>

vars == <<entry, items, pc, grp, cur, err, singleCalls, failedBatches, targets,
          maxThemes, themes, themePath, response, brief, validation, written,
          run, firstLabels, gateway, gwCalled, gwSvc, gwResult, gwJitter,
          gwAttempts, gwSleeps, given, store, cacheOut, history, writers>>

\* ------------------------------------------------------------ specifications
\* The items batch_assign_sector can be called with: fetched items, some of them
\* already holding a sector.
PreSectors == {"", "Energy", "Unknown"}

SectorInputs ==
    {[k \in 1..n |-> [FirstArticles(n)[k] EXCEPT !.sector = pre[k]]] :
        n \in 0..NItems, pre \in [1..NItems -> PreSectors]}

InitSector ==
    /\ entry = "sector"
    /\ items \in SectorInputs
    /\ gateway \in {"up", "down"}
    /\ pc = "sector"
    /\ grp = 1
    /\ maxThemes = NoneArg
    /\ gwSvc = <<>>
    /\ Idle
    /\ Fresh

NextSector == SectorEmpty \/ SectorBatch \/ SectorSingle \/ SectorSweep

\* A call of batch_assign_sector(items).
SpecSector == InitSector /\ [][NextSector]_vars

\* The items batch_assign_sentiment can be called with: fetched items, some of
\* them already holding a sentiment.
PreSentiments == {"", "Positive", "Neutral"}

SentInputs ==
    {[k \in 1..n |-> [FirstArticles(n)[k] EXCEPT !.sentiment = pre[k]]] :
        n \in 0..NItems, pre \in [1..NItems -> PreSentiments]}

InitSent ==
    /\ entry = "sentiment"
    /\ items \in SentInputs
    /\ gateway \in {"up", "down"}
    /\ pc = "sentiment"
    /\ grp = 0
    /\ maxThemes = NoneArg
    /\ gwSvc = <<>>
    /\ Idle
    /\ Fresh

NextSent == SentStart \/ SentBatch

\* A call of batch_assign_sentiment(items).
SpecSent == InitSent /\ [][NextSent]_vars

\* The max_themes arguments find_emerging_themes is called with.
MaxThemesArgs == {NoneArg} \cup 0..1

InitThemes ==
    /\ entry = "themes"
    /\ items \in FetchedLists
    /\ gateway \in {"up", "down"}
    /\ maxThemes \in MaxThemesArgs
    /\ pc = "themes"
    /\ grp = 0
    /\ gwSvc = <<>>
    /\ Idle
    /\ Fresh

NextThemes == ThemesCall

\* A call of find_emerging_themes(items, max_themes).
SpecThemes == InitThemes /\ [][NextThemes]_vars

InitGateway ==
    /\ entry \in Wrappers
    /\ gwSvc \in ServiceBehaviours
    /\ items = <<>>
    /\ gateway = "up"
    /\ maxThemes = NoneArg
    /\ pc = "wrapper"
    /\ grp = 0
    /\ gwJitter \in Jitters
    /\ given = items
    /\ store = MissingStore
    /\ Fresh

NextGateway == WrapperCall

\* A call of one of the three gateway wrappers.
SpecGateway == InitGateway /\ [][NextGateway]_vars

InitApply ==
    /\ entry \in {"apply_sector", "apply_sentiment"}
    /\ items \in ApplyInputs
    /\ gateway = "up"
    /\ maxThemes = NoneArg
    /\ pc = "apply"
    /\ grp = 0
    /\ gwSvc = <<>>
    /\ Idle
    /\ Fresh

\* The mapping of one batch response applied to the items.
SpecApply == InitApply /\ [][ApplyMapping]_vars

InitDedupe ==
    /\ entry = "dedupe"
    /\ given \in RawLists
    /\ items = <<>>
    /\ store = MissingStore
    /\ gateway = "up"
    /\ maxThemes = NoneArg
    /\ pc = "dedupe"
    /\ grp = 0
    /\ gwSvc = <<>>
    /\ gwJitter = NoJitter
    /\ Fresh

\* One call of deduplicate_items on the results of the searches.
SpecDedupe == InitDedupe /\ [][Dedupe]_vars

InitCache ==
    /\ entry = "cache"
    /\ store \in Stores
    /\ items = <<>>
    /\ given = items
    /\ gateway = "up"
    /\ maxThemes = NoneArg
    /\ pc = "cache"
    /\ grp = 0
    /\ gwSvc = <<>>
    /\ gwJitter = NoJitter
    /\ Fresh

NextCache == CacheGet \/ CacheSet

\* Calls of utils_cache.get and utils_cache.set on a cache file.
SpecCache == InitCache /\ [][NextCache]_vars

\* One process, and no cache file yet: the cache as the program leaves it.
InitMap ==
    /\ entry = "cache_map"
    /\ store = MissingStore
    /\ items = <<>>
    /\ given = items
    /\ gateway = "up"
    /\ maxThemes = NoneArg
    /\ pc = "cache"
    /\ grp = 0
    /\ gwSvc = <<>>
    /\ gwJitter = NoJitter
    /\ Fresh

\* Calls of utils_cache.get and utils_cache.set by one process, from no file on.
SpecMap == InitMap /\ [][NextCache]_vars

\* Two processes are about to call utils_cache.set on the same cache file.
InitRace ==
    /\ entry = "cache_race"
    /\ store \in Stores
    /\ items = <<>>
    /\ given = items
    /\ gateway = "up"
    /\ maxThemes = NoneArg
    /\ pc = "race"
    /\ grp = 0
    /\ gwSvc = <<>>
    /\ gwJitter = NoJitter
    /\ Fresh

NextRace == \E w \in Writers : WriterLoad(w) \/ WriterOpen(w) \/ WriterDump(w)

\* One call of utils_cache.set by each of two processes, their steps interleaved.
SpecRace == InitRace /\ [][NextRace]_vars

\* run_morning_brief, from the list fetch_all_news returned.
Init ==
    /\ entry = "run"
    /\ items \in {FirstArticles(n) : n \in 0..RunItems}
    /\ gateway \in {"up", "down"}
    /\ maxThemes = NoneArg
    /\ pc = "sector"
    /\ grp = 1
    /\ gwSvc = <<>>
    /\ Idle
    /\ Fresh

Next ==
    \/ SectorEmpty
    \/ SectorBatch
    \/ SectorSingle
    \/ SectorSweep
    \/ SentStart
    \/ SentBatch
    \/ ThemesCall
    \/ Compose
    \/ Validate
    \/ Save
    \/ Rerun

\* A run of run_morning_brief, and the run that follows it.
Spec == Init /\ [][Next]_vars

\* The same, where a run that can take a step takes it.
FairSpec == Init /\ [][Next]_vars /\ WF_vars(Next)

\* ------------------------------------------------------------------ claims
\* A direct call of a function has ended, by a return or by an exception.
Ended == pc \in {"returned", "raised"}

\* C1: whenever batch_assign_sector finishes, whatever the failures of the
\* gateway were, every item's sector is a GICS sector or "Unknown".
C1_TotalSectorCoverage ==
    (entry = "sector" /\ Ended) =>
        \A k \in 1..Len(items) : items[k].sector \in GICS_SECTORS \cup {"Unknown"}

\* C2: when batch_assign_sentiment returns, every item's sentiment is Positive,
\* Negative or Neutral, whatever labels the responses held.
C2_SentimentCoerced ==
    (entry = "sentiment" /\ pc = "returned") =>
        \A k \in 1..Len(items) : items[k].sentiment \in SENTIMENTS

\* C3: when no completion call is answered, the classifier returns normally and
\* every item it was to label holds the default label.
C3_UnavailableStillReturns ==
    (entry = "sentiment" /\ gateway = "down" /\ Ended) =>
        /\ pc = "returned"
        /\ \A k \in 1..Len(items) : items[k].sentiment # ""

\* C4: every run reaches the state in which both output files are written.
C4_EventuallyBothFiles == <>(written = {"brief.json", "brief.md"})

\* C5: a brief that fails the schema validation raises no error (and the run
\* goes on to write both files).
C5_ValidationFailSoft ==
    validation = "failed" => (pc # "raised" /\ err = "")

\* The classification stage of a run is over: it returned, or an exception left it.
ClassificationOver == pc = "themes" \/ (pc = "raised" /\ validation = "")

\* C6: the second run, over the same URLs with the gateway disabled, makes no
\* gateway call for the items and gives each the labels of the first run.
C6_IdempotentRerun ==
    (run = 2 /\ ClassificationOver) =>
        (~gwCalled /\ Labels(items) = firstLabels)

\* C7: when the gateway failed for exactly one batch, per-item calls were made
\* for exactly the items of that batch and every item of the other batches is
\* labelled.
C7_BatchFailureIsolation ==
    (entry = "sentiment" /\ Ended /\ Cardinality(failedBatches) = 1) =>
        LET failed == UNION {{targets[j] : j \in Group(b[2], Len(targets))} : b \in failedBatches}
        IN  /\ singleCalls = failed
            /\ \A j \in 1..Len(targets) :
                   targets[j] \notin failed => items[targets[j]].sentiment # ""

\* The proposals of the response that hold a valid index.
Grounded ==
    {k \in 1..Len(response.themes) :
        /\ response.themes[k].obj
        /\ \E j \in 1..Len(response.themes[k].support) :
               /\ response.themes[k].support[j].int
               /\ response.themes[k].support[j].v \in 1..Len(items)}

\* C8: every theme find_emerging_themes returns, on either path, is built from a
\* non-empty support list whose indices all lie in 1..len(items), and no theme
\* comes from a proposal without a valid index.
C8_Grounding ==
    (entry = "themes" /\ pc = "returned") =>
        /\ \A k \in 1..Len(themes) :
               /\ themes[k].support # <<>>
               /\ \A j \in 1..Len(themes[k].support) : themes[k].support[j] \in 1..Len(items)
               /\ themes[k].related_news =
                      Take([j \in 1..Len(themes[k].support) |->
                               items[themes[k].support[j]].headline], 5)
        /\ themePath = "model" => Len(themes) <= Cardinality(Grounded)

\* C8, its case: on the model path a theme is returned and another proposal of
\* the same response is discarded.
C8_Witness ==
    /\ entry = "themes"
    /\ pc = "returned"
    /\ themePath = "model"
    /\ maxThemes = NoneArg
    /\ Len(themes) >= 1
    /\ Len(response.themes) > Len(themes)

\* C9: every URL of the composed brief, in news_by_sector and as the
\* reference_url of an alert, is the URL of an item of the run.
C9_NoFabrication ==
    brief.date = "today" =>
        LET urls == {items[k].url : k \in 1..Len(items)}
        IN  /\ \A sec \in DOMAIN brief.news_by_sector :
                   \A k \in 1..Len(brief.news_by_sector[sec]) :
                       brief.news_by_sector[sec][k].url \in urls
            /\ \A k \in 1..Len(brief.watchlist_alerts) :
                   \/ brief.watchlist_alerts[k].reference_url = None
                   \/ brief.watchlist_alerts[k].reference_url \in urls

\* C10: a wrapper whose every attempt failed raises to its caller.
C10_ExhaustionRaises ==
    (pc # "wrapper" /\ \A k \in 1..MAX_RETRIES : gwSvc[k] # "ok") => gwResult = "raise"

\* C11: on a cache file that is missing, unparseable or no JSON object, get
\* returns no entry without raising, and set succeeds and leaves a store that
\* holds the new entry only.
C11_CacheFailureMode ==
    (cacheOut.op # "" /\ cacheOut.before # "object") =>
        /\ ~cacheOut.raised
        /\ cacheOut.op = "get" => ~cacheOut.found
        /\ cacheOut.op = "set" =>
               /\ store.state = "object"
               /\ DOMAIN store.data = {_key(cacheOut.url)}
               /\ store.data[_key(cacheOut.url)] = cacheOut.value

\* The words of a headline: its characters without the spaces (str.split).
SplitWords(h) == SelectSeq(h, LAMBDA c : c # " ")

\* Two items with the same URL whose headlines differ in letter case or in
\* whitespace only.
SameStory(a, b) ==
    /\ a.url = b.url
    /\ LowerText(SplitWords(a.headline)) = LowerText(SplitWords(b.headline))

DedupeOver == entry = "dedupe" /\ pc = "returned"

\* C12: after deduplication every item has a non-empty URL and no two items
\* have the same URL.
C12_UrlUnique ==
    DedupeOver =>
        /\ \A k \in 1..Len(items) : items[k].url # <<>>
        /\ \A j, k \in 1..Len(items) : j # k => items[j].url # items[k].url

\* C13: of the items with one URL whose headlines differ in letter case or
\* whitespace only, exactly the first is kept, and the kept items are in their
\* first-seen order.
C13_FirstOfSameStory ==
    DedupeOver =>
        \E pos \in [1..Len(items) -> 1..Len(given)] :
            /\ \A k \in 1..Len(items) : given[pos[k]] = items[k]
            /\ \A j, k \in 1..Len(items) : j < k => pos[j] < pos[k]
            /\ \A p \in 1..Len(given) :
                   (\E k \in 1..Len(items) : pos[k] = p)
                       <=> (\A q \in 1..(p - 1) : ~SameStory(given[q], given[p]))

\* C14: a templated summary of a region counts the items of that region: its
\* item count is their number and its Positive, Negative and Neutral counts
\* are their sentiment counts.
C14_TemplateCountsRegion ==
    brief # NoBrief =>
        \A r \in {"global", "asia", "indonesia"} :
            LET s == brief.market_summaries[r]
                of_region == SelectSeq(items, LAMBDA it : it.region = s.label)
            IN  s.kind = "template" => s = _fallback_summary(of_region, s.label)

\* C15: a batch response of batch_assign_sector changes only the items its
\* prompt enumerated: the step that applies the response leaves the items of
\* the other batches as they were.
C15_BatchTouchesOwnItems ==
    [][(entry = "sector" /\ pc = "sector") =>
          \A k \in 1..Len(items) : k \notin Group(grp, Len(items)) => items'[k] = items[k]]_vars

\* C16: an item that enters batch_assign_sector with a sector leaves it with
\* the same sector.
C16_LabelledItemsKept ==
    (entry = "sector" /\ Ended) =>
        \A k \in 1..Len(given) : given[k].sector # "" => items[k].sector = given[k].sector

\* C17: a payload that is not parseable JSON, or is JSON of the wrong shape,
\* lets no exception escape the classifier that received it.
C17_MalformedIsSoft ==
    pc = "raised" => err \notin {"JSONDecodeError", "TypeError", "AttributeError"}

\* A call of a gateway wrapper has ended.
WrapperOver == pc # "wrapper" /\ gwAttempts > 0

\* C18: a generic error of the completion call is retried, not passed to the
\* caller at its first occurrence.
C18_GenericErrorRetried ==
    (WrapperOver /\ gwSvc[1] = "error") => gwAttempts >= 2

\* C19: when the service reports the model as unavailable the call goes on with
\* another candidate: a call whose first attempt finds the model unavailable,
\* and whose every later attempt would succeed, gets its response.
C19_ModelFallback ==
    (WrapperOver /\ gwSvc[1] = "notfound" /\ \A k \in 2..MAX_RETRIES : gwSvc[k] = "ok")
        => gwResult = "resp"

\* C20: a wrapper call ends after at most MAX_RETRIES attempts, and the delay
\* before each retry starts at the base delay, is twice the delay before, and
\* the time slept, jitter included, is at most the ceiling.
C20_BoundedRetries ==
    WrapperOver =>
        /\ gwAttempts <= MAX_RETRIES
        /\ \A k \in 1..Len(gwSleeps) :
               k < gwAttempts =>
                   /\ gwSleeps[k].delay =
                          IF k = 1 THEN BaseDelay(entry) ELSE 2 * gwSleeps[k - 1].delay
                   /\ gwSleeps[k].delay <= gwSleeps[k].slept
                   /\ gwSleeps[k].slept <= Ceiling(entry)

\* The sentiment wrapper is rate limited five times and answered at the sixth
\* attempt, having slept five times with jitter.
C20_Witness ==
    /\ WrapperOver
    /\ entry = "analyze_sentiment._backoff"
    /\ gwResult = "resp"
    /\ gwAttempts = MAX_RETRIES
    /\ Len(gwSleeps) = MAX_RETRIES - 1
    /\ gwSleeps[MAX_RETRIES - 1].slept > gwSleeps[MAX_RETRIES - 1].delay

\* C21: the final sweep of batch_assign_sector gives an item still without a
\* sector the default "Unknown" directly: the step of the sweep for the item
\* at cur ends in no exception and leaves the item with "Unknown".
C21_SweepGivesDefault ==
    [][(entry = "sector" /\ pc = "sector_sweep") =>
          (pc' # "raised" /\ items'[cur].sector = "Unknown")]_vars

\* The mapping of a response has been applied.
ApplyOver == entry \in {"apply_sector", "apply_sentiment"} /\ pc \in {"returned", "raised"}

\* The orders the entries of a mapping of n entries can be applied in.
Orders(n) == {p \in [1..n -> 1..n] : \A j, k \in 1..n : j # k => p[j] # p[k]}

\* The label an entry leaves on the item it names.
Stored(e) == IF entry = "apply_sector" THEN SectorCoerce(e.label) ELSE SentStore(e.label)

LabelOf(it) == IF entry = "apply_sector" THEN it.sector ELSE it.sentiment

\* No two entries give one item of the list different labels.
NoConflict(m, n) ==
    \A j, k \in 1..Len(m) :
        (m[j].i = m[k].i /\ m[j].i \in 1..n) => Stored(m[j]) = Stored(m[k])

\* C22: the entries of a batch response applied in any order give the same
\* final labels.
C22_OrderIndependent ==
    (ApplyOver /\ pc = "returned") =>
        \A p \in Orders(Len(response.mapping)) :
            ApplyTo(entry, given, [k \in 1..Len(response.mapping) |-> response.mapping[p[k]]]).items
                = items

\* C22, amended: when no two entries give one item different labels, the
\* entries applied in any order give the same final labels; an item several
\* entries name has the label of the last of them, in the order received.
C22_OrderIndependentUnlessConflict ==
    (ApplyOver /\ pc = "returned") =>
        LET m == response.mapping IN
        /\ NoConflict(m, Len(given)) =>
               \A p \in Orders(Len(m)) :
                   ApplyTo(entry, given, [k \in 1..Len(m) |-> m[p[k]]]).items = items
        /\ \A n \in 1..Len(items) :
               LET E == {k \in 1..Len(m) : m[k].i = n}
               IN  IF E = {} THEN items[n] = given[n]
                   ELSE LabelOf(items[n]) = Stored(m[CHOOSE k \in E : \A j \in E : j <= k])

\* Two entries that name two different items have both been applied.
C22_Witness ==
    /\ ApplyOver
    /\ pc = "returned"
    /\ Len(response.mapping) = 2
    /\ response.mapping[1].i = 2
    /\ response.mapping[2].i = 1
    /\ Len(given) >= 2
    /\ items[1] # given[1]
    /\ items[2] # given[2]

\* A sequence without its k-th element.
RemoveAt(seq, k) == SubSeq(seq, 1, k - 1) \o SubSeq(seq, k + 1, Len(seq))

\* C23: an entry whose index is not in 1..len(items) changes no item and
\* causes no error: the outcome is that of the response without the entry, and
\* a response of such entries only leaves the items as they were.
C23_OutOfRangeIgnored ==
    ApplyOver =>
        LET m == response.mapping
            out(k) == m[k].obj /\ m[k].i \notin 1..Len(given)
        IN  /\ \A k \in 1..Len(m) :
                   out(k) =>
                       LET r == ApplyTo(entry, given, RemoveAt(m, k))
                       IN  r.items = items /\ r.raised = (pc = "raised")
            /\ (\A k \in 1..Len(m) : out(k)) => (pc = "returned" /\ items = given)

\* A response with an entry of index 0 or below and an entry that relabelled
\* an item has been applied.
C23_Witness ==
    /\ ApplyOver
    /\ pc = "returned"
    /\ Len(given) >= 1
    /\ \E k \in 1..Len(response.mapping) : response.mapping[k].i < 1
    /\ items # given

\* C24: every theme of the brief has a related_news that is not empty and
\* holds headlines of the items of the run only.
C24_BriefThemesTraceable ==
    brief # NoBrief =>
        \A k \in 1..Len(brief.emerging_themes) :
            LET related == brief.emerging_themes[k].related_news
            IN  /\ related # <<>>
                /\ \A j \in 1..Len(related) :
                       \E n \in 1..Len(items) : items[n].headline = related[j]

\* A call of find_emerging_themes has returned.
ThemesOver == entry = "themes" /\ pc = "returned"

\* C25: the region of a theme is the region most of its supporting items have,
\* and "Mixed" when two or more regions share the highest count.
C25_MajorityOrMixed ==
    ThemesOver =>
        \A k \in 1..Len(themes) :
            LET sup == themes[k].support
                R == {items[sup[j]].region : j \in 1..Len(sup)}
                cnt(r) == Cardinality({j \in 1..Len(sup) : items[sup[j]].region = r})
                top == {r \in R : \A q \in R : cnt(q) <= cnt(r)}
            IN  themes[k].region = IF Cardinality(top) = 1 THEN CHOOSE r \in top : TRUE
                                   ELSE "Mixed"

\* C26: the priority of a theme of the model is a step function of the number
\* of distinct items of its support (in tenths: 10 from four items, 7 from
\* three, else 5).
C26_PriorityOfDistinctSupport ==
    (ThemesOver /\ themePath = "model") =>
        \A k \in 1..Len(themes) :
            LET n == Cardinality(Range(themes[k].support))
            IN  themes[k].priority = IF n >= 4 THEN 10 ELSE IF n >= 3 THEN 7 ELSE 5

\* C27: related_news holds the headlines of the supporting items in increasing
\* order of their index, at most five of them.
C27_RelatedInIndexOrder ==
    ThemesOver =>
        \A k \in 1..Len(themes) :
            LET sup == themes[k].support
                p == CHOOSE q \in Orders(Len(sup)) :
                         \A i, j \in 1..Len(sup) : i < j => sup[q[i]] <= sup[q[j]]
            IN  /\ Len(themes[k].related_news) <= 5
                /\ themes[k].related_news =
                       Take([j \in 1..Len(sup) |-> items[sup[p[j]]].headline], 5)

\* C28: find_emerging_themes returns at most max_themes themes, for every
\* max_themes of 0 or more.
C28_AtMostMaxThemes ==
    (ThemesOver /\ maxThemes >= 0) => Len(themes) <= maxThemes

\* C29: when the gateway fails, or the response is unreadable or holds no
\* proposal with a valid index, find_emerging_themes returns, and what it
\* returns is the themes of the trending terms of the items, whatever the
\* service did and answered.
C29_FallbackTotalDeterministic ==
    (entry = "themes" /\ pc # "themes" /\ Len(items) > 0
        /\ (gateway = "down" \/ response.malformed \/ Grounded = {})) =>
            /\ pc = "returned"
            /\ themes = FallbackThemes(items, IF maxThemes \in {NoneArg, 0}
                                               THEN THEMES_MAX ELSE maxThemes)

\* The service answered with proposals none of which holds a valid index, and
\* the themes of the trending terms were returned.
C29_Witness ==
    /\ ThemesOver
    /\ gateway = "up"
    /\ ~response.malformed
    /\ Len(response.themes) >= 1
    /\ Grounded = {}
    /\ themePath = "fallback"
    /\ themes # <<>>

\* C30: a run that has written its output files has read the cache and then
\* written it: its last cache access is a set that raised nothing, and the
\* cache file holds an object.
C30_CacheReadThenWritten ==
    (entry = "run" /\ pc = "done") =>
        (cacheOut.op = "set" /\ ~cacheOut.raised /\ store.state = "object")

\* Both processes have returned from set.
RaceOver == \A w \in Writers : writers[w].pc = "done"

\* The process whose json.dump came last, and the other one.
LastWriter == CHOOSE w \in Writers : writers[w].last

OtherWriter == CHOOSE w \in Writers : w # LastWriter

\* The dict holds the entry set(url, value) puts in.
HoldsEntry(data, url, value) == _key(url) \in DOMAIN data /\ data[_key(url)] = value

\* C31: two processes that run set(u1, v1) and set(u2, v2) on the same store at
\* the same time race, and the store can end with only one of the two entries.
\* Whenever both calls have returned and the two URLs have different keys, the
\* file is either a text json.load raises on (the shorter text written over the
\* longer one) or the dict the last process to write had loaded, with its
\* entry put in: the entry of the other process is in the file only if the last
\* one had loaded it.  C31_Witness is the interleaving the claim names.
C31_LastWriterWins ==
    (RaceOver /\ _key(writers[1].url) # _key(writers[2].url)) =>
        LET l == writers[LastWriter]
            o == writers[OtherWriter]
        IN  \/ store.state = "unparseable"
            \/ /\ store.state = "object"
               /\ HoldsEntry(store.data, l.url, l.value)
               /\ HoldsEntry(store.data, o.url, o.value)
                      <=> HoldsEntry(l.d.data, o.url, o.value)

\* C31 (case reached): both processes loaded the same dict, both calls have
\* returned, the URLs differ, and the file is a JSON object that holds the
\* entry of one process and no entry under the key of the other.
C31_Witness ==
    /\ RaceOver
    /\ _key(writers[1].url) # _key(writers[2].url)
    /\ writers[1].d = writers[2].d
    /\ store.state = "object"
    /\ HoldsEntry(store.data, writers[LastWriter].url, writers[LastWriter].value)
    /\ _key(writers[OtherWriter].url) \notin DOMAIN store.data

\* C32: with a single writer the cache behaves as a map.  After any sequence of
\* set calls the file holds, for each URL, the value of the most recent set of
\* that URL and nothing for a URL never set (so a set leaves the entries of all
\* other URLs as they were); get returns that value, or no entry, and no call
\* raises.  None is read as the empty URL, as _key reads it.
C32_SingleWriterMap ==
    /\ \A url \in CacheUrls :
          LET d == _load(store)
          IN  IF UrlText(url) \in DOMAIN history
              THEN /\ d.dict
                   /\ _key(url) \in DOMAIN d.data
                   /\ d.data[_key(url)] = history[UrlText(url)]
              ELSE d.dict /\ _key(url) \notin DOMAIN d.data
    /\ ~cacheOut.raised
    /\ cacheOut.op = "get" =>
          IF UrlText(cacheOut.url) \in DOMAIN history
          THEN cacheOut.found /\ cacheOut.value = history[UrlText(cacheOut.url)]
          ELSE ~cacheOut.found /\ cacheOut.value = NoEntry

\* C32 (case reached): two URLs have been set to different values, and a get of
\* one of them has returned its value.
C32_Witness ==
    /\ entry = "cache_map"
    /\ cacheOut.op = "get"
    /\ cacheOut.found
    /\ \E t \in DOMAIN history :
          t # UrlText(cacheOut.url) /\ history[t] # cacheOut.value

\* C33: the sentiment indicators of a composed brief are consistent with its
\* news listing: sentiment_indicators has exactly the sector keys of
\* news_by_sector, and for every sector Positive + Negative + Neutral is the
\* number of items listed under that sector.
C33_IndicatorsMatchListing ==
    (brief # NoBrief) =>
        /\ DOMAIN brief.sentiment_indicators = DOMAIN brief.news_by_sector
        /\ \A sec \in DOMAIN brief.news_by_sector :
              brief.sentiment_indicators[sec]["Positive"]
                  + brief.sentiment_indicators[sec]["Negative"]
                  + brief.sentiment_indicators[sec]["Neutral"]
                = Len(brief.news_by_sector[sec])
====
